---- MODULE Spec2Model ----
(***************************************************************************)
(* A model of git-project-archive.py: one sequential process that parses   *)
(* its arguments, validates the projects, builds one 7z archive per        *)
(* project in a per-run temporary directory, moves each archive to the     *)
(* output directory and optionally encrypts the archives with gpg.         *)
(*                                                                         *)
(* Paths and file names are strings, built with the same concatenations    *)
(* the script performs.  The file system is the set of paths that exist.   *)
(* The outcome of every external command (git, 7z, gpg, copytree) is       *)
(* drawn nondeterministically; the script's reaction to it is the code's.  *)
(***************************************************************************)
EXTENDS Integers, Sequences, FiniteSets, TLC

(* ------------------------------ bounds -------------------------------- *)

\* The longest list of project paths on the command line.
MaxProjects == 2

\* The largest number of --encryption-key options on the command line.
MaxKeys == 2

(* --------------------------- the environment --------------------------- *)

\* The paths a user may name on the command line: a path that is no
\* directory, a directory without .git, and two Git projects, the second of
\* which has a base name that ends like a tag.
NotADir  == "nofile"
PlainDir == "plain"
ProjA    == "work/proj"
ProjB    == "work/proj.v1.2.0"

Paths == {NotADir, PlainDir, ProjA, ProjB}

\* The working directory of the process.
Cwd == "/home/u"

\* What `git rev-parse HEAD` can print: a full hash.  The two hashes agree on
\* their first 8 characters and differ afterwards.
Rev1 == "abcdef1234567890abcdef1234567890abcdef12"
Rev2 == "abcdef12ffffffffffffffffffffffffffffffff"

\* `git rev-parse HEAD` in a repository without a commit prints the word HEAD
\* and returns 128.
RevParseOutcomes ==
    { [out |-> Rev1, rc |-> 0], [out |-> Rev2, rc |-> 0], [out |-> "HEAD", rc |-> 128] }

\* What `git describe --exact-match --abbrev=0` can print: nothing when the
\* commit has no exact tag, the tag otherwise.
Tags == {"", "v1.2.0"}

KeyName(n) == "key" \o ToString(n)

KeyLists == { [j \in 1..n |-> KeyName(j)] : n \in 0..MaxKeys }

ProjectLists == UNION { [1..n -> Paths] : n \in 1..MaxProjects }

(* ------------------------------ os.path -------------------------------- *)

join(a, b) ==
    IF a = "" \/ SubSeq(a, Len(a), Len(a)) = "/" THEN a \o b ELSE a \o "/" \o b

abspath(p) == IF p # "" /\ SubSeq(p, 1, 1) = "/" THEN p ELSE join(Cwd, p)

\* The directories that exist when the process starts.
Dirs ==
    { join(Cwd, PlainDir), join(Cwd, ProjA), join(Cwd, ProjB),
      join(join(Cwd, ProjA), ".git"), join(join(Cwd, ProjB), ".git") }

isdir(p) == abspath(p) \in Dirs

RECURSIVE LastSlash(_, _)
LastSlash(s, k) ==
    IF k = 0 THEN 0
    ELSE IF SubSeq(s, k, k) = "/" THEN k
    ELSE LastSlash(s, k - 1)

basename(p) == SubSeq(p, LastSlash(p, Len(p)) + 1, Len(p))

(* ------------------------------- state --------------------------------- *)

VARIABLES
    args,          \* the parsed command line (argparse namespace)
    projects,      \* arguments.project after parse_arguments rewrote it
    pc,            \* the statement the process is at
    i,             \* the index of create_archives' loop
    tmpdir,        \* create_archives' tmpdir, "" before mkdtemp
    git_revision,  \* create_archives' local
    git_tag,       \* create_archives' local
    fs,            \* the paths that exist among those the process writes
    exitCode,      \* the exit code of the process, -1 while it runs
    stderr,        \* the error the process wrote, "" if none
    ran,           \* history: the archiving steps executed so far
    failed,        \* history: a clone, copy, 7z or gpg command has failed
    moved,         \* history: the output paths archives were moved to
    gpgCalls       \* history: the gpg invocations, each with argv and rc

vars == << args, projects, pc, i, tmpdir, git_revision, git_tag, fs,
           exitCode, stderr, ran, failed, moved, gpgCalls >>

OutputDir == "./"

TmpDirName == "/tmp/tmpRUN"

Init ==
    /\ args \in [ project : ProjectLists, encrypt : BOOLEAN, keys : KeyLists,
                  keep : BOOLEAN, ignored : BOOLEAN, output_dir : {OutputDir} ]
    /\ projects = << >>
    /\ pc = "parse_arguments"
    /\ i = 0
    /\ tmpdir = ""
    /\ git_revision = ""
    /\ git_tag = ""
    /\ fs = {}
    /\ exitCode = -1
    /\ stderr = ""
    /\ ran = {}
    /\ failed = FALSE
    /\ moved = << >>
    /\ gpgCalls = << >>

\* sys.exit(code) after writing msg to the error stream, or an uncaught
\* exception (Python prints the traceback and exits with 1).
Exit(code, msg) ==
    /\ pc' = "exit"
    /\ exitCode' = code
    /\ stderr' = msg

Traceback == "Traceback (most recent call last)"

(* --------------------------- parse_arguments --------------------------- *)

\* A variant of NotDirectories in which the loop stops after the first path.
NotDirectories_FirstOnly(ps) == { k \in {1} : ~ isdir(ps[k]) }

\* The indexes of the supplied paths that are not directories.
NotDirectories(ps) == { k \in 1..Len(ps) : ~ isdir(ps[k]) }

Min(S) == CHOOSE x \in S : \A y \in S : x <= y

\* The dictionary parse_arguments puts in place of a path.  The fields
\* create_archives adds later are "" until it sets them.
Project(p) ==
    [ rel |-> p, abs |-> abspath(p), base |-> basename(abspath(p)),
      tmpdir |-> "", archive |-> "", output |-> "" ]

\* A variant of MissingRecipient with the comparison off by one.
MissingRecipient_OffByOne(a) == a.encrypt /\ Len(a.keys) < 0

MissingRecipient(a) == a.encrypt /\ Len(a.keys) < 1

parse_arguments ==
    /\ pc = "parse_arguments"
    /\ IF NotDirectories(args.project) # {}
       THEN /\ Exit(1, "ERROR: Unable to locate project directory: "
                         \o args.project[Min(NotDirectories(args.project))])
            /\ UNCHANGED projects
       ELSE IF MissingRecipient(args)
       THEN /\ Exit(1, "ERROR: When encrypting, you must pass the name of at least encryption key")
            /\ UNCHANGED projects
       ELSE /\ projects' = [ k \in 1..Len(args.project) |-> Project(args.project[k]) ]
            /\ pc' = "validate_projects"
            /\ UNCHANGED << exitCode, stderr >>
    /\ UNCHANGED << args, i, tmpdir, git_revision, git_tag, fs, ran, failed,
                    moved, gpgCalls >>

(* -------------------------- validate_projects -------------------------- *)

\* A variant of MissingGit in which the loop stops after the first project.
MissingGit_FirstOnly(ps) == { k \in {1} : ~ isdir(join(ps[k].abs, ".git")) }

\* The indexes of the projects without a .git directory.
MissingGit(ps) == { k \in 1..Len(ps) : ~ isdir(join(ps[k].abs, ".git")) }

validate_projects ==
    /\ pc = "validate_projects"
    /\ IF MissingGit(projects) # {}
       THEN Exit(1, "ERROR: Project does not have a Git repository: "
                      \o projects[Min(MissingGit(projects))].rel)
       ELSE /\ pc' = "mkdtemp"
            /\ UNCHANGED << exitCode, stderr >>
    /\ UNCHANGED << args, projects, i, tmpdir, git_revision, git_tag, fs, ran,
                    failed, moved, gpgCalls >>

(* --------------------------- create_archives --------------------------- *)

\* tmpdir = tempfile.mkdtemp()
mkdtemp ==
    /\ pc = "mkdtemp"
    /\ tmpdir' = TmpDirName
    /\ fs' = fs \cup {TmpDirName}
    /\ ran' = ran \cup {"mkdtemp"}
    /\ i' = 1
    /\ pc' = "stage"
    /\ UNCHANGED << args, projects, git_revision, git_tag, exitCode, stderr,
                    failed, moved, gpgCalls >>

\* What `git clone <abs> <dst>` can do.  Its exit status is not read.
\*   ok        : the working tree is at dst, status 0
\*   fail      : git removed what it had created, status 128
\*   checkout  : "Clone succeeded, but checkout failed": dst is kept, status 128
CloneOutcomes == {"ok", "fail", "checkout"}

\* What shutil.copytree(abs, dst) can do: return, raise before it made dst
\* (the source cannot be listed), or raise after it made dst.
CopyOutcomes == {"ok", "raise_before", "raise_after"}

\* The first statements of the loop body: project['tmpdir'], then the clone
\* or the copy.
stage ==
    /\ pc = "stage"
    /\ LET dst == join(tmpdir, projects[i].base) IN
       /\ projects' = [projects EXCEPT ![i].tmpdir = dst]
       /\ IF ~ args.ignored
          THEN \E o \in CloneOutcomes :
                 /\ ran' = ran \cup {"clone"}
                 /\ fs' = IF o = "fail" THEN fs ELSE fs \cup {dst}
                 /\ failed' = (failed \/ o # "ok")
                 /\ pc' = "query"
                 /\ UNCHANGED << exitCode, stderr >>
          ELSE \E o \in CopyOutcomes :
                 /\ ran' = ran \cup {"copytree"}
                 /\ fs' = IF o = "raise_before" THEN fs ELSE fs \cup {dst}
                 /\ failed' = (failed \/ o # "ok")
                 /\ IF o = "ok"
                    THEN pc' = "query" /\ UNCHANGED << exitCode, stderr >>
                    ELSE Exit(1, Traceback)
    /\ UNCHANGED << args, i, tmpdir, git_revision, git_tag, moved, gpgCalls >>

\* git_revision[:n]
Prefix(s, n) == SubSeq(s, 1, IF Len(s) < n THEN Len(s) ELSE n)

\* A variant of git_filename_info with the slice one character short.
git_filename_info_Short(revision, tag) ==
    IF Len(tag) = 0 THEN Prefix(revision, 7) ELSE tag \o "." \o Prefix(revision, 7)

git_filename_info(revision, tag) ==
    IF Len(tag) = 0 THEN Prefix(revision, 8) ELSE tag \o "." \o Prefix(revision, 8)

archive_name(base, info) == base \o "." \o info \o ".7z"

\* git rev-parse, git describe, the version label and project['archive'].
\* Neither command's exit status is read.  A repository without a commit has
\* no tag.
query ==
    /\ pc = "query"
    /\ \E r \in RevParseOutcomes, t \in Tags :
         /\ r.rc # 0 => t = ""
         /\ git_revision' = r.out
         /\ git_tag' = t
         /\ projects' = [projects EXCEPT ![i].archive =
                           join(tmpdir, archive_name(projects[i].base,
                                                     git_filename_info(r.out, t)))]
    /\ ran' = ran \cup {"rev-parse", "describe"}
    /\ pc' = "compress"
    /\ UNCHANGED << args, i, tmpdir, fs, exitCode, stderr, failed, moved,
                    gpgCalls >>

\* What `7z a <archive> <dir>` can do.  Its exit status is not read.
\*   ok   : the archive is written, status 0
\*   warn : the archive is written without some of the files, status 1
\*   fail : no archive is written, status 2
\* Without the directory to compress the command cannot succeed.
SevenZipOutcomes(dirExists) ==
    IF dirExists THEN {"ok", "warn", "fail"} ELSE {"warn", "fail"}

compress ==
    /\ pc = "compress"
    /\ \E o \in SevenZipOutcomes(projects[i].tmpdir \in fs) :
         /\ fs' = IF o = "fail" THEN fs ELSE fs \cup {projects[i].archive}
         /\ failed' = (failed \/ o # "ok")
    /\ ran' = ran \cup {"7z"}
    /\ pc' = "rmtree"
    /\ UNCHANGED << args, projects, i, tmpdir, git_revision, git_tag, exitCode,
                    stderr, moved, gpgCalls >>

\* shutil.rmtree(project['tmpdir']) raises when the directory does not exist.
rmtree ==
    /\ pc = "rmtree"
    /\ ran' = ran \cup {"rmtree"}
    /\ IF projects[i].tmpdir \in fs
       THEN /\ fs' = fs \ {projects[i].tmpdir}
            /\ pc' = "move"
            /\ UNCHANGED << exitCode, stderr >>
       ELSE /\ Exit(1, Traceback)
            /\ UNCHANGED fs
    /\ UNCHANGED << args, projects, i, tmpdir, git_revision, git_tag, failed,
                    moved, gpgCalls >>

\* A variant of MoveFile that removes the source and writes no destination.
MoveFile_Lost(files, src, dst) == files \ {src}

\* shutil.move(src, dst) of a file: dst is replaced when it exists.
MoveFile(files, src, dst) == (files \ {src}) \cup {dst}

\* project['output'], then shutil.move, which raises when the archive does
\* not exist; then the next project, or the end of the loop.
move ==
    /\ pc = "move"
    /\ ran' = ran \cup {"move"}
    /\ LET out == join(args.output_dir, basename(projects[i].archive)) IN
       /\ projects' = [projects EXCEPT ![i].output = out]
       /\ IF projects[i].archive \in fs
          THEN /\ fs' = MoveFile(fs, projects[i].archive, out)
               /\ moved' = Append(moved, out)
               /\ IF i < Len(projects)
                  THEN i' = i + 1 /\ pc' = "stage"
                  ELSE i' = i /\ pc' = "rmdir"
               /\ UNCHANGED << exitCode, stderr >>
          ELSE /\ Exit(1, Traceback)
               /\ UNCHANGED << fs, moved, i >>
    /\ UNCHANGED << args, tmpdir, git_revision, git_tag, failed, gpgCalls >>

\* The paths below directory d.
Below(files, d) ==
    { f \in files : Len(f) > Len(d) + 1 /\ SubSeq(f, 1, Len(d) + 1) = d \o "/" }

\* os.rmdir(tmpdir) raises when the directory is not empty; create_archives
\* then returns to main.
rmdir ==
    /\ pc = "rmdir"
    /\ ran' = ran \cup {"rmdir"}
    /\ IF Below(fs, tmpdir) = {}
       THEN /\ fs' = fs \ {tmpdir}
            /\ pc' = "main_encrypt"
            /\ UNCHANGED << exitCode, stderr >>
       ELSE /\ Exit(1, Traceback)
            /\ UNCHANGED fs
    /\ UNCHANGED << args, projects, i, tmpdir, git_revision, git_tag, failed,
                    moved, gpgCalls >>

(* -------------------------------- main --------------------------------- *)

\* A variant of EncryptRequested in which main does not test the flag.
EncryptRequested_Always(a) == TRUE

EncryptRequested(a) == a.encrypt

\* if arguments.encrypt: encrypt_archives(...); otherwise main returns and
\* the process exits with 0.
main_encrypt ==
    /\ pc = "main_encrypt"
    /\ IF EncryptRequested(args)
       THEN pc' = "gpg" /\ UNCHANGED << exitCode, stderr >>
       ELSE Exit(0, "")
    /\ UNCHANGED << args, projects, i, tmpdir, git_revision, git_tag, fs, ran,
                    failed, moved, gpgCalls >>

(* -------------------------- encrypt_archives --------------------------- *)

\* archives = [project['output'] for project in projects]
archives(ps) == [ k \in 1..Len(ps) |-> ps[k].output ]

RECURSIVE RecipientArgs(_)
RecipientArgs(recipients) ==
    IF recipients = << >> THEN << >>
    ELSE << "--recipient", Head(recipients) >> \o RecipientArgs(Tail(recipients))

gpg_args(recipients, files) ==
    << "/usr/bin/gpg", "--yes", "--trust-model", "always", "--encrypt-files" >>
        \o RecipientArgs(recipients) \o files

\* The file gpg --encrypt-files writes for a file.
Encrypted(f) == f \o ".gpg"

\* The gpg invocation.  Its exit status is not read.  It either encrypts
\* every file and returns 0, or stops with a nonzero status having encrypted
\* the first n files only, n less than the number of files.
gpg ==
    /\ pc = "gpg"
    /\ ran' = ran \cup {"gpg"}
    /\ LET files == archives(projects) IN
       \E n \in 0..Len(files) :
         /\ gpgCalls' = Append(gpgCalls,
                              [ argv |-> gpg_args(args.keys, files),
                                rc |-> IF n = Len(files) THEN 0 ELSE 2 ])
         /\ fs' = fs \cup { Encrypted(files[k]) : k \in { j \in 1..n : files[j] \in fs } }
         /\ failed' = (failed \/ n < Len(files))
    /\ pc' = "remove"
    /\ UNCHANGED << args, projects, i, tmpdir, git_revision, git_tag, exitCode,
                    stderr, moved >>

\* for archive in archives: os.remove(archive), which raises when the file
\* does not exist.  The result is the files left and whether a call raised.
RECURSIVE RemoveEach(_, _)
RemoveEach(files, names) ==
    IF names = << >> THEN [ files |-> files, raised |-> FALSE ]
    ELSE IF Head(names) \notin files THEN [ files |-> files, raised |-> TRUE ]
    ELSE RemoveEach(files \ {Head(names)}, Tail(names))

\* if not keep_archives: remove the archives; then encrypt_archives and
\* main return and the process exits with 0.
remove ==
    /\ pc = "remove"
    /\ IF ~ args.keep
       THEN LET r == RemoveEach(fs, archives(projects)) IN
            /\ ran' = ran \cup {"remove"}
            /\ fs' = r.files
            /\ IF r.raised THEN Exit(1, Traceback) ELSE Exit(0, "")
       ELSE /\ Exit(0, "")
            /\ UNCHANGED << fs, ran >>
    /\ UNCHANGED << args, projects, i, tmpdir, git_revision, git_tag, failed,
                    moved, gpgCalls >>

Next ==
    \/ parse_arguments
    \/ validate_projects
    \/ mkdtemp
    \/ stage
    \/ query
    \/ compress
    \/ rmtree
    \/ move
    \/ rmdir
    \/ main_encrypt
    \/ gpg
    \/ remove

Spec == Init /\ [][Next]_vars

(* ------------------------------ properties ----------------------------- *)

\* No archiving step has happened: no temporary directory, no staged tree,
\* no archive, no file in the output directory, no encryption.
NoArchiving ==
    /\ ran = {}
    /\ fs = {}
    /\ tmpdir = ""
    /\ moved = << >>
    /\ gpgCalls = << >>

\* The files in the output directory.
OutFiles == { f \in fs : Len(f) > 2 /\ SubSeq(f, 1, 2) = OutputDir }

\* Neither the per-run temporary directory nor anything in it exists.
NoTempLeft == TmpDirName \notin fs /\ Below(fs, TmpDirName) = {}

HasDirWithoutGit ==
    \E k \in 1..Len(args.project) :
        /\ isdir(args.project[k])
        /\ ~ isdir(join(abspath(args.project[k]), ".git"))

HasNotADirectory == \E k \in 1..Len(args.project) : ~ isdir(args.project[k])

\* C1: when some supplied path, at any position, is a directory without
\* .git, the process never gets past validation, no archiving step ever
\* happens, and when it has exited its exit code is nonzero.
C1_ValidateAllBeforeAct ==
    HasDirWithoutGit =>
        /\ pc \in {"parse_arguments", "validate_projects", "exit"}
        /\ NoArchiving
        /\ pc = "exit" => exitCode \notin {0, -1}

\* A valid project first, the directory without .git second, and the
\* process has exited in validate_projects.
C1_Witness ==
    /\ args.project = << ProjA, PlainDir >>
    /\ pc = "exit"
    /\ exitCode = 1
    /\ projects # << >>

\* C2: when some supplied path is not a directory, the process exits in
\* parse_arguments with code 1 and no archiving step ever happens, also when
\* valid projects come earlier in the list.
C2_NotADirectoryExits ==
    HasNotADirectory =>
        /\ pc \in {"parse_arguments", "exit"}
        /\ NoArchiving
        /\ pc = "exit" => exitCode = 1

\* A valid project first, the path that is no directory second, exited.
C2_Witness ==
    /\ args.project = << ProjA, NotADir >>
    /\ pc = "exit"
    /\ exitCode = 1

\* C3: with -e and no recipient key the process exits in parse_arguments
\* with a nonzero code and no archiving step ever happens, whatever the
\* project paths are.
C3_EncryptWithoutKeysExits ==
    (args.encrypt /\ Len(args.keys) = 0) =>
        /\ pc \in {"parse_arguments", "exit"}
        /\ NoArchiving
        /\ pc = "exit" => exitCode \notin {0, -1}

\* -e without keys on two valid projects, exited.
C3_Witness ==
    /\ args.encrypt
    /\ args.keys = << >>
    /\ args.project = << ProjA, ProjB >>
    /\ pc = "exit"
    /\ exitCode = 1

\* l is the first 8 characters of rev (all of rev when it is shorter).
IsShortOf(l, rev) ==
    /\ Len(l) = (IF Len(rev) < 8 THEN Len(rev) ELSE 8)
    /\ l \o SubSeq(rev, Len(l) + 1, Len(rev)) = rev

\* C4: once the version label of project i is computed, the archive is named
\* <base>.<label>.7z in the temporary directory, where the label is the
\* first 8 characters of the revision when there is no tag, and the tag, a
\* dot and the first 8 characters of the revision when there is one; tag
\* v1.2.0 and revision abcdef1234... give v1.2.0.abcdef12.
C4_VersionLabel ==
    pc \in {"compress", "rmtree", "move"} =>
        LET p == projects[i]
            name == basename(p.archive)
            label == SubSeq(name, Len(p.base) + 2, Len(name) - 3)
        IN  /\ p.archive = tmpdir \o "/" \o name
            /\ name = p.base \o "." \o label \o ".7z"
            /\ git_tag = "" => IsShortOf(label, git_revision)
            /\ git_tag # "" =>
                  /\ SubSeq(label, 1, Len(git_tag) + 1) = git_tag \o "."
                  /\ IsShortOf(SubSeq(label, Len(git_tag) + 2, Len(label)),
                               git_revision)
            /\ (git_tag = "v1.2.0" /\ git_revision = Rev1) =>
                  label = "v1.2.0.abcdef12"
            /\ (git_tag = "" /\ git_revision = Rev1) => label = "abcdef12"

\* The tagged project of the example, its label computed.
C4_Witness ==
    /\ pc = "compress"
    /\ git_tag = "v1.2.0"
    /\ git_revision = Rev1
    /\ projects[i].archive = "/tmp/tmpRUN/proj.v1.2.0.abcdef12.7z"

SuccessWithoutEncrypt == pc = "exit" /\ exitCode = 0 /\ ~ args.encrypt

\* C5 as stated: after a successful run without -e the output directory
\* holds as many archive files as there are input projects, and no temporary
\* directory remains.
C5_OneFilePerProject ==
    SuccessWithoutEncrypt =>
        /\ Cardinality(OutFiles) = Len(projects)
        /\ NoTempLeft

\* C5 amended: after a successful run without -e every project's archive
\* <output dir>/<base>.<label>.7z exists, the output directory holds exactly
\* these files, one per distinct archive name (so N files when the N names
\* differ), and no temporary directory remains.
C5_OneFilePerArchiveName ==
    SuccessWithoutEncrypt =>
        LET outputs == { projects[k].output : k \in 1..Len(projects) } IN
        /\ \A k \in 1..Len(projects) :
              /\ projects[k].output = OutputDir \o basename(projects[k].archive)
              /\ projects[k].output \in fs
        /\ OutFiles = outputs
        /\ Cardinality(OutFiles) =
              Cardinality({ basename(projects[k].archive) : k \in 1..Len(projects) })
        /\ NoTempLeft

\* Two projects with different base names and different version labels
\* whose archives have the same name: one file is left.
C5_Witness ==
    /\ SuccessWithoutEncrypt
    /\ Len(projects) = 2
    /\ projects[1].base # projects[2].base
    /\ projects[1].output = projects[2].output
    /\ Cardinality(OutFiles) = 1

\* C6: after a successful run with -e, without -k every project's
\* unencrypted archive is absent and its encrypted form exists; with -k both
\* exist.
C6_EncryptedOutputs ==
    (pc = "exit" /\ exitCode = 0 /\ args.encrypt) =>
        \A k \in 1..Len(projects) :
            /\ Encrypted(projects[k].output) \in fs
            /\ args.keep <=> projects[k].output \in fs

\* C7: when the encryption command returned a nonzero status no unencrypted
\* archive is deleted, and once the Encryptor has run every project's archive
\* exists unencrypted or encrypted.
C7_DeleteOnlyOnSuccess ==
    gpgCalls # << >> =>
        /\ gpgCalls[1].rc # 0 =>
              /\ "remove" \notin ran
              /\ \A k \in 1..Len(projects) : projects[k].output \in fs
        /\ \A k \in 1..Len(projects) :
              projects[k].output \in fs \/ Encrypted(projects[k].output) \in fs

\* C8: once a clone, copy, compress or encryption command has failed, the
\* only step the process takes is its exit with a nonzero code.
C8_FatalErrorAborts == [][failed => (pc' = "exit" /\ exitCode' \notin {0, -1})]_vars

\* C9: when the process has exited, normally or not, no staging directory
\* and no per-run temporary directory remains.
C9_TempRemovedOnEveryExit == pc = "exit" => NoTempLeft

\* C10: gpg runs at most once and only with -e, after every project's
\* archive was moved; its arguments are the five fixed ones, then
\* --recipient and the key for every key in order, then every project's
\* output path in input order.  Without -e gpg does not run and every file
\* moved to the output directory is still there.
C10_SingleEncryptInvocation ==
    /\ Len(gpgCalls) <= 1
    /\ gpgCalls # << >> =>
          LET a == gpgCalls[1].argv
              nk == Len(args.keys)
              np == Len(projects)
          IN  /\ args.encrypt
              /\ Len(moved) = np
              /\ Len(a) = 5 + 2 * nk + np
              /\ a[1] = "/usr/bin/gpg"
              /\ \A j \in 1..nk : a[4 + 2 * j] = "--recipient"
                                   /\ a[5 + 2 * j] = args.keys[j]
              /\ \A k \in 1..np : a[5 + 2 * nk + k] = moved[k]
                                   /\ moved[k] = projects[k].output
    /\ ~ args.encrypt =>
          /\ gpgCalls = << >>
          /\ ran \cap {"gpg", "remove"} = {}
          /\ \A k \in 1..Len(moved) : moved[k] \in fs

\* gpg was invoked for two archives with two recipients.
C10_Witness ==
    /\ gpgCalls # << >>
    /\ Len(args.keys) = 2
    /\ Len(projects) = 2
    /\ moved[1] # moved[2]

====
